---- MODULE Spec2Model ----
(***************************************************************************)
(* Model of src/src/excel_reader_server/server.py: the MCP tool catalog    *)
(* (handle_list_tools) and the tool dispatcher (handle_call_tool).         *)
(*                                                                         *)
(* handle_call_tool is a coroutine without any await, so one invocation    *)
(* runs to completion on the event loop: it is one atomic action.  The     *)
(* file system is the environment; it changes between invocations.         *)
(***************************************************************************)
EXTENDS Integers, Sequences, FiniteSets, TLC

\* ---------------------------------------------------------------- bounds
\* sheet_index arguments range over -1 .. MaxIndex
MaxIndex == 2

\* ------------------------------------------------------- Python values
\* A Python value: its type, and its payload (s for str, n for int/bool).
PyNone == [t |-> "NoneType", s |-> "", n |-> 0]
PyStr(x) == [t |-> "str", s |-> x, n |-> 0]
PyInt(k) == [t |-> "int", s |-> "", n |-> k]
PyBool(b) == [t |-> "bool", s |-> "", n |-> IF b THEN 1 ELSE 0]
\* marks a key that a dict does not hold
Missing == [t |-> "missing", s |-> "", n |-> 0]

\* bool(v): None, "", 0 and False are falsy
Truthy(v) ==
    CASE v.t = "NoneType" -> FALSE
      [] v.t = "str" -> v.s # ""
      [] v.t = "int" -> v.n # 0
      [] v.t = "bool" -> v.n # 0
      [] OTHER -> FALSE

Digits == <<"0", "1", "2", "3", "4", "5", "6", "7", "8", "9">>

RECURSIVE NatStr(_)
NatStr(k) == IF k < 10 THEN Digits[k + 1]
             ELSE NatStr(k \div 10) \o Digits[(k % 10) + 1]

\* str(k) for an int
IntStr(k) == IF k < 0 THEN "-" \o NatStr(0 - k) ELSE NatStr(k)

\* str(v)
StrOf(v) ==
    CASE v.t = "str" -> v.s
      [] v.t = "int" -> IntStr(v.n)
      [] v.t = "bool" -> (IF v.n = 1 THEN "True" ELSE "False")
      [] OTHER -> "None"

\* ------------------------------------------------------ tool invocation
Keys == {"file_path", "sheet_name", "sheet_index"}

\* arguments: dict | None
NoneArgs == [none |-> TRUE, d |-> [k \in Keys |-> Missing]]
Dict(fp, sn, si) ==
    [none |-> FALSE,
     d |-> [k \in Keys |-> CASE k = "file_path" -> fp
                             [] k = "sheet_name" -> sn
                             [] OTHER -> si]]

\* `not arguments`: None or the empty dict
ArgsFalsy(arguments) ==
    arguments.none \/ \A k \in Keys : arguments.d[k] = Missing

\* arguments.get(key, default)
DictGet(arguments, key, default) ==
    IF arguments.d[key] = Missing THEN default ELSE arguments.d[key]

\* ------------------------------------------------------------ catalog
ToolNames == <<"read_excel", "read_excel_by_sheet_name", "read_excel_by_sheet_index">>

Catalog ==
    [i \in 1..3 |->
        [name |-> ToolNames[i],
         required |-> {"file_path"},
         properties |-> CASE i = 1 -> {"file_path"}
                          [] i = 2 -> {"file_path", "sheet_name"}
                          [] OTHER -> {"file_path", "sheet_index"}]]

\* ------------------------------------------------------- file system
Cwd == "/data"
AbsolutePaths == {"/data/a.xlsx", "/data/b.xlsx"}

\* os.path.abspath on a str: a relative path is joined to the working directory
Abspath(p) == IF p \in AbsolutePaths THEN p ELSE Cwd \o "/" \o p

\* cell fixtures
GridMixed == << <<PyInt(42), PyNone>>, <<PyStr("x"), PyBool(FALSE)>>, <<PyNone, PyNone>> >>
GridZero == << <<PyInt(0), PyStr("")>> >>
GridText == << <<PyStr("y")>>, <<PyInt(-7)>> >>
GridEmpty == << >>

Sheet(title, rows) == [title |-> title, rows |-> rows]

NoFile == [kind |-> "nofile", sheets |-> << >>]
Corrupt == [kind |-> "corrupt", sheets |-> << >>]
Xlsx(sheets) == [kind |-> "xlsx", sheets |-> sheets]

WbAB == Xlsx(<< Sheet("A", GridMixed), Sheet("B", GridZero) >>)
WbBA == Xlsx(<< Sheet("B", GridEmpty), Sheet("A", GridText) >>)
WbA == Xlsx(<< Sheet("A", GridZero) >>)

Contents == {NoFile, Corrupt, WbAB, WbBA, WbA}

\* os.path.exists(abs_path)
Exists(fs, abs_path) == abs_path \in DOMAIN fs /\ fs[abs_path].kind # "nofile"

\* ------------------------------------------------------- exceptions
Ok(result) == [ok |-> TRUE, result |-> result, excType |-> "", excMsg |-> ""]
Raise(type, msg) == [ok |-> FALSE, result |-> << >>, excType |-> type, excMsg |-> msg]

\* messages of the failures raised below the handler
MsgBadZip == "File is not a zip file"
MsgListIndex == "list index out of range"
MsgNotPath == "expected str, bytes or os.PathLike object, not int"
MsgCompare == "'<' not supported between instances of 'NoneType' and 'int'"

\* ------------------------------------------------- workbook accessor
\* openpyxl.load_workbook(abs_path, data_only=True)
LoadWorkbook(fs, abs_path) ==
    IF fs[abs_path].kind = "xlsx" THEN Ok(fs[abs_path].sheets)
    ELSE Raise("BadZipFile", MsgBadZip)

\* workbook.sheetnames
SheetNames(workbook) == [i \in 1..Len(workbook) |-> workbook[i].title]

InSeq(x, seq) == \E i \in 1..Len(seq) : seq[i] = x

\* workbook[sheet_name], for a name among workbook.sheetnames
GetSheet(workbook, sheet_name) ==
    workbook[CHOOSE i \in 1..Len(workbook) : workbook[i].title = sheet_name]

\* variant: `if cell.value` in place of `if cell.value is not None`
CellStrFalsy(value) == IF Truthy(value) THEN PyStr(StrOf(value)) ELSE PyStr("")

\* str(cell.value) if cell.value is not None else ""
CellStr(value) == IF value.t # "NoneType" THEN PyStr(StrOf(value)) ELSE PyStr("")

\* row_data = [... for cell in row]
RowData(row) == [j \in 1..Len(row) |-> CellStr(row[j])]

\* for row in sheet.rows: sheet_data.append(row_data)
SheetData(sheet) == [i \in 1..Len(sheet.rows) |-> RowData(sheet.rows[i])]

\* result[key] = data on a dict that keeps insertion order
DictSet(result, key, data) ==
    IF \E i \in 1..Len(result) : result[i].key = key
    THEN [i \in 1..Len(result) |->
            IF result[i].key = key THEN [key |-> key, data |-> data] ELSE result[i]]
    ELSE Append(result, [key |-> key, data |-> data])

\* ------------------------------------------------- the three tools
RECURSIVE ReadAllFrom(_, _, _)
ReadAllFrom(workbook, i, result) ==
    IF i > Len(workbook) THEN result
    ELSE LET sheet_name == SheetNames(workbook)[i]
             sheet == GetSheet(workbook, sheet_name)
         IN ReadAllFrom(workbook, i + 1, DictSet(result, sheet_name, SheetData(sheet)))

\* variant: the last sheet is left out
ReadAllButLast(workbook) == Ok(ReadAllFrom(SubSeq(workbook, 1, Len(workbook) - 1), 1, << >>))

\* name == "read_excel"
ReadAll(workbook) == Ok(ReadAllFrom(workbook, 1, << >>))

\* variant: the default is the last sheet
ReadByNameDefaultLast(workbook, arguments) ==
    LET given == DictGet(arguments, "sheet_name", PyNone) IN
    IF ~Truthy(given)
    THEN LET sheet_name == SheetNames(workbook)[Len(workbook)]
         IN Ok(DictSet(<< >>, sheet_name, SheetData(GetSheet(workbook, sheet_name))))
    ELSE IF ~InSeq(given.s, SheetNames(workbook))
    THEN Raise("ValueError", "Sheet '" \o given.s \o "' not found in workbook")
    ELSE Ok(DictSet(<< >>, given.s, SheetData(GetSheet(workbook, given.s))))

\* variant: `if sheet_name is None` in place of `if not sheet_name`
ReadByNameNoneOnly(workbook, arguments) ==
    LET given == DictGet(arguments, "sheet_name", PyNone) IN
    IF given = PyNone
    THEN LET sheet_name == SheetNames(workbook)[1]
         IN Ok(DictSet(<< >>, sheet_name, SheetData(GetSheet(workbook, sheet_name))))
    ELSE IF ~InSeq(given.s, SheetNames(workbook))
    THEN Raise("ValueError", "Sheet '" \o given.s \o "' not found in workbook")
    ELSE Ok(DictSet(<< >>, given.s, SheetData(GetSheet(workbook, given.s))))

\* name == "read_excel_by_sheet_name"
ReadByName(workbook, arguments) ==
    LET given == DictGet(arguments, "sheet_name", PyNone) IN
    IF ~Truthy(given)
    THEN IF Len(workbook) = 0 THEN Raise("IndexError", MsgListIndex)
         ELSE LET sheet_name == SheetNames(workbook)[1]
              IN Ok(DictSet(<< >>, sheet_name, SheetData(GetSheet(workbook, sheet_name))))
    ELSE IF ~InSeq(given.s, SheetNames(workbook))
    THEN Raise("ValueError", "Sheet '" \o given.s \o "' not found in workbook")
    ELSE Ok(DictSet(<< >>, given.s, SheetData(GetSheet(workbook, given.s))))

\* name == "read_excel_by_sheet_index"
ReadByIndex(workbook, arguments) ==
    LET sheet_index == DictGet(arguments, "sheet_index", PyInt(0)) IN
    IF sheet_index.t \notin {"int", "bool"} THEN Raise("TypeError", MsgCompare)
    ELSE IF sheet_index.n < 0 \/ sheet_index.n >= Len(SheetNames(workbook))
    THEN Raise("ValueError", "Sheet index " \o StrOf(sheet_index) \o " is out of range")
    ELSE LET sheet_name == SheetNames(workbook)[sheet_index.n + 1]
         IN Ok(DictSet(<< >>, sheet_name, SheetData(GetSheet(workbook, sheet_name))))

\* ---------------------------------------------------- json.dumps
RECURSIVE Spaces(_)
Spaces(k) == IF k = 0 THEN "" ELSE " " \o Spaces(k - 1)

\* the fixtures hold no character that JSON escapes
JsonScalar(v) ==
    CASE v.t = "str" -> "\"" \o v.s \o "\""
      [] v.t = "int" -> IntStr(v.n)
      [] v.t = "bool" -> (IF v.n = 1 THEN "true" ELSE "false")
      [] OTHER -> "null"

RECURSIVE JoinLines(_, _)
JoinLines(items, pad) ==
    IF Len(items) = 0 THEN ""
    ELSE IF Len(items) = 1 THEN pad \o items[1]
    ELSE pad \o items[1] \o ",\n" \o JoinLines(Tail(items), pad)

JsonList(items, level) ==
    IF Len(items) = 0 THEN "[]"
    ELSE "[\n" \o JoinLines(items, Spaces(2 * (level + 1))) \o "\n" \o Spaces(2 * level) \o "]"

JsonRow(row) == JsonList([j \in 1..Len(row) |-> JsonScalar(row[j])], 2)

JsonSheet(data) == JsonList([i \in 1..Len(data) |-> JsonRow(data[i])], 1)

\* json.dumps(result, indent=2)
JsonDumps(result) ==
    IF Len(result) = 0 THEN "{}"
    ELSE "{\n"
         \o JoinLines([i \in 1..Len(result) |->
                         "\"" \o result[i].key \o "\": " \o JsonSheet(result[i].data)],
                      Spaces(2))
         \o "\n}"

\* ------------------------------------------------ handle_call_tool
\* variant: the arguments are checked before the tool name
ValidateArgsFirst(name, arguments, fs) ==
    IF ArgsFalsy(arguments) THEN Raise("ValueError", "Missing arguments")
    ELSE IF ~InSeq(name, ToolNames) THEN Raise("ValueError", "Unknown tool: " \o name)
    ELSE LET file_path == DictGet(arguments, "file_path", PyNone) IN
         IF ~Truthy(file_path) THEN Raise("ValueError", "file_path is required")
         ELSE IF file_path.t # "str" THEN Raise("TypeError", MsgNotPath)
         ELSE IF ~Exists(fs, Abspath(file_path.s))
         THEN Raise("ValueError", "Excel file not found: " \o file_path.s)
         ELSE Ok(Abspath(file_path.s))

\* the four checks before the try block; Ok carries abs_path
Validate(name, arguments, fs) ==
    IF ~InSeq(name, ToolNames) THEN Raise("ValueError", "Unknown tool: " \o name)
    ELSE IF ArgsFalsy(arguments) THEN Raise("ValueError", "Missing arguments")
    ELSE LET file_path == DictGet(arguments, "file_path", PyNone) IN
         IF ~Truthy(file_path) THEN Raise("ValueError", "file_path is required")
         ELSE IF file_path.t # "str" THEN Raise("TypeError", MsgNotPath)
         ELSE IF ~Exists(fs, Abspath(file_path.s))
         THEN Raise("ValueError", "Excel file not found: " \o file_path.s)
         ELSE Ok(Abspath(file_path.s))

\* the branch on name inside the try block
Dispatch(name, arguments, workbook) ==
    CASE name = "read_excel" -> ReadAll(workbook)
      [] name = "read_excel_by_sheet_name" -> ReadByName(workbook, arguments)
      [] name = "read_excel_by_sheet_index" -> ReadByIndex(workbook, arguments)
      [] OTHER -> Ok(<< >>)

\* what an invocation leaves behind: its return value or the exception it
\* raises, whether load_workbook returned a workbook, and how many times
\* workbook.close() was called on it (the handler never calls it)
Frame(status, text, excType, excMsg, loaded, result) ==
    [status |-> status, text |-> text, excType |-> excType, excMsg |-> excMsg,
     loaded |-> loaded, closeCalls |-> 0, result |-> result]

\* except Exception as e: raise ValueError(f"Error reading Excel file: {str(e)}")
Wrap(e, loaded) ==
    Frame("raise", "", "ValueError", "Error reading Excel file: " \o e.excMsg, loaded, << >>)

\* try: ... except Exception
TryBody(name, arguments, abs_path, fs) ==
    LET opened == LoadWorkbook(fs, abs_path) IN
    IF ~opened.ok THEN Wrap(opened, FALSE)
    ELSE LET r == Dispatch(name, arguments, opened.result) IN
         IF ~r.ok THEN Wrap(r, TRUE)
         ELSE Frame("return", JsonDumps(r.result), "", "", TRUE, r.result)

CallTool(name, arguments, fs) ==
    LET v == Validate(name, arguments, fs) IN
    IF ~v.ok THEN Frame("raise", "", v.excType, v.excMsg, FALSE, << >>)
    ELSE TryBody(name, arguments, v.result, fs)

\* ------------------------------------------------------------ state
VARIABLES
    fs,             \* the file system: absolute path -> content
    last,           \* the last request served and what it produced
    liveWorkbooks   \* workbooks still referenced once their invocation is over

vars == <<fs, last, liveWorkbooks>>

NoFrame == Frame("none", "", "", "", FALSE, << >>)

Served(op, name, arguments, seen, frame, tools) ==
    [op |-> op, name |-> name, arguments |-> arguments, seen |-> seen,
     frame |-> frame, tools |-> tools]

\* the content, at the time of the call, of the file the invocation names
SeenBy(arguments, files) ==
    LET file_path == DictGet(arguments, "file_path", PyNone) IN
    IF file_path.t = "str" /\ Abspath(file_path.s) \in DOMAIN files
    THEN files[Abspath(file_path.s)] ELSE NoFile

\* --------------------------------------------------------- inputs
NameInputs == {ToolNames[i] : i \in 1..3} \cup {"write_excel"}
FilePathInputs == {Missing, PyNone, PyStr(""), PyStr("a.xlsx"), PyStr("/data/b.xlsx"), PyInt(42)}
SheetNameInputs == {PyNone, PyStr(""), PyStr("A"), PyStr("B"), PyStr("Z")}
SheetIndexInputs == {PyInt(i) : i \in (0 - 1)..MaxIndex} \cup {PyNone}
ArgInputs ==
    {NoneArgs}
    \cup {Dict(fp, sn, Missing) : fp \in FilePathInputs, sn \in SheetNameInputs \cup {Missing}}
    \cup {Dict(fp, Missing, si) : fp \in FilePathInputs, si \in SheetIndexInputs}

\* --------------------------------------------------------- actions
Init ==
    /\ fs \in [AbsolutePaths -> Contents]
    /\ last = Served("none", "", NoneArgs, NoFile, NoFrame, << >>)
    /\ liveWorkbooks = {}

\* @server.list_tools()
HandleListTools ==
    /\ last' = Served("list_tools", "", NoneArgs, NoFile, NoFrame, Catalog)
    /\ UNCHANGED <<fs, liveWorkbooks>>

\* the workbook the invocation loads, if it gets that far
Loaded(name, arguments, files) ==
    IF CallTool(name, arguments, files).loaded THEN {SeenBy(arguments, files)} ELSE {}

\* variant: the first workbook loaded is kept at module level and reused
HandleCallToolCached(name, arguments) ==
    LET view == IF liveWorkbooks = {} THEN fs
                ELSE [p \in AbsolutePaths |->
                        IF fs[p].kind = "xlsx" THEN CHOOSE w \in liveWorkbooks : TRUE
                        ELSE fs[p]]
    IN /\ last' = Served("call_tool", name, arguments, SeenBy(arguments, fs),
                         CallTool(name, arguments, view), << >>)
       /\ liveWorkbooks' = IF liveWorkbooks = {} THEN Loaded(name, arguments, fs)
                           ELSE liveWorkbooks
       /\ UNCHANGED fs

\* variant: the workbook is appended to a module-level list and never removed
HandleCallToolKeeping(name, arguments) ==
    /\ last' = Served("call_tool", name, arguments, SeenBy(arguments, fs),
                      CallTool(name, arguments, fs), << >>)
    /\ liveWorkbooks' = liveWorkbooks \cup Loaded(name, arguments, fs)
    /\ UNCHANGED fs

\* @server.call_tool(): the workbook is bound to a local of the coroutine only
HandleCallTool(name, arguments) ==
    /\ last' = Served("call_tool", name, arguments, SeenBy(arguments, fs),
                      CallTool(name, arguments, fs), << >>)
    /\ UNCHANGED <<fs, liveWorkbooks>>

\* the environment creates, replaces, damages or removes a file
WriteFile(path, content) ==
    /\ fs[path] # content
    /\ fs' = [fs EXCEPT ![path] = content]
    /\ UNCHANGED <<last, liveWorkbooks>>

Next ==
    \/ HandleListTools
    \/ \E name \in NameInputs, arguments \in ArgInputs : HandleCallTool(name, arguments)
    \/ \E path \in AbsolutePaths, content \in Contents : WriteFile(path, content)

Spec == Init /\ [][Next]_vars

\* ------------------------------------------------------------------
\* How a caller tells the error kinds apart: every failure is a
\* ValueError, so the kind is read off the message.
\* ------------------------------------------------------------------
SheetTitles == {"", "A", "B", "Z"}
IndexTexts == {IntStr(i) : i \in (0 - 1)..(MaxIndex + 1)}
MsgSheetNotFound == {"Sheet '" \o t \o "' not found in workbook" : t \in SheetTitles}
MsgIndexRange == {"Sheet index " \o t \o " is out of range" : t \in IndexTexts}
Underlying == {MsgBadZip, MsgListIndex, MsgCompare, MsgNotPath}
                \cup MsgSheetNotFound \cup MsgIndexRange
PathTexts == {"a.xlsx", "/data/b.xlsx"}

Kind(frame) ==
    IF frame.status # "raise" THEN "none"
    ELSE IF frame.excType # "ValueError" THEN "raw"
    ELSE IF \E n \in NameInputs : frame.excMsg = "Unknown tool: " \o n THEN "UnknownTool"
    ELSE IF frame.excMsg = "Missing arguments" THEN "MissingArguments"
    ELSE IF frame.excMsg = "file_path is required" THEN "MissingRequiredField"
    ELSE IF \E q \in PathTexts : frame.excMsg = "Excel file not found: " \o q THEN "FileNotFound"
    ELSE IF frame.excMsg \in MsgSheetNotFound THEN "SheetNotFound"
    ELSE IF frame.excMsg \in MsgIndexRange THEN "SheetIndexOutOfRange"
    ELSE IF \E u \in Underlying : frame.excMsg = "Error reading Excel file: " \o u
    THEN "ProcessingError"
    ELSE "other"

Taxonomy == {"UnknownTool", "MissingArguments", "MissingRequiredField", "FileNotFound",
             "SheetNotFound", "SheetIndexOutOfRange", "ProcessingError"}

\* the string each fixture cell is expected to show as
Shown(v) ==
    CASE v = PyNone -> ""
      [] v = PyInt(42) -> "42"
      [] v = PyInt(0) -> "0"
      [] v = PyInt(0 - 7) -> "-7"
      [] v = PyBool(FALSE) -> "False"
      [] v = PyStr("x") -> "x"
      [] v = PyStr("y") -> "y"
      [] OTHER -> ""

IsCall == last.op = "call_tool"
Arg(key) == IF last.arguments.none THEN Missing ELSE last.arguments.d[key]
Titles(content) == {content.sheets[i].title : i \in 1..Len(content.sheets)}
SheetOf(content, title) ==
    content.sheets[CHOOSE i \in 1..Len(content.sheets) : content.sheets[i].title = title]
\* an existing, parseable workbook named by a string path
OnWorkbook == IsCall /\ Arg("file_path").t = "str" /\ Arg("file_path").s # ""
              /\ last.seen.kind = "xlsx"

\* rows of a result entry are the sheet's rows, row by row and cell by cell, as strings
SameGrid(data, rows) ==
    /\ Len(data) = Len(rows)
    /\ \A r \in 1..Len(rows) :
         /\ Len(data[r]) = Len(rows[r])
         /\ \A c \in 1..Len(rows[r]) :
              data[r][c].t = "str" /\ data[r][c].s = Shown(rows[r][c])

\* ------------------------------------------------------------ C1
UnknownName == last.name \notin {"read_excel", "read_excel_by_sheet_name",
                                 "read_excel_by_sheet_index"}
NoArguments == last.arguments.none \/ \A k \in Keys : last.arguments.d[k] = Missing
NoFilePath == Arg("file_path") \in {Missing, PyNone, PyStr("")}
PathAbsent == Arg("file_path").t = "str" /\ last.seen.kind = "nofile"

FirstFailure ==
    IF UnknownName THEN "UnknownTool"
    ELSE IF NoArguments THEN "MissingArguments"
    ELSE IF NoFilePath THEN "MissingRequiredField"
    ELSE IF PathAbsent THEN "FileNotFound"
    ELSE "none"

\* C1: the four validation checks run in the order tool name, arguments,
\* file_path, existence of the resolved path; the error is that of the first
\* check that fails, and then no workbook is opened and no payload produced.
C1_ValidationOrder ==
    (IsCall /\ FirstFailure # "none") =>
        /\ Kind(last.frame) = FirstFailure
        /\ ~last.frame.loaded
        /\ last.frame.text = "" /\ last.frame.result = << >>

\* an unknown tool called without arguments: checks 1 and 2 both fail, check 1 wins;
C1_Witness ==
    /\ IsCall /\ UnknownName /\ NoArguments
    /\ Kind(last.frame) = "UnknownTool"

\* ------------------------------------------------------------ C2
\* C2: read_excel_by_sheet_name on a parseable workbook with a sheet_name that
\* is present and not among the sheet names fails with SheetNotFound, a kind
\* that is not ProcessingError.  (Stated for a non-empty sheet_name; the empty
\* one is the case of C10.)
C2_SheetNotFound ==
    (OnWorkbook /\ last.name = "read_excel_by_sheet_name"
        /\ Arg("sheet_name").t = "str" /\ Arg("sheet_name").s # ""
        /\ Arg("sheet_name").s \notin Titles(last.seen))
    => Kind(last.frame) = "SheetNotFound"

\* ------------------------------------------------------------ C3
\* C3: read_excel_by_sheet_index fails with SheetIndexOutOfRange (not
\* ProcessingError) for an index that is negative or >= the sheet count, and
\* for an index within the range returns one entry keyed by that sheet's name.
C3_SheetIndexRange ==
    (OnWorkbook /\ last.name = "read_excel_by_sheet_index" /\ Arg("sheet_index").t = "int")
    => LET i == Arg("sheet_index").n
           count == Len(last.seen.sheets)
       IN IF i < 0 \/ i >= count
          THEN Kind(last.frame) = "SheetIndexOutOfRange"
          ELSE /\ last.frame.status = "return"
               /\ Len(last.frame.result) = 1
               /\ last.frame.result[1].key = last.seen.sheets[i + 1].title

\* ------------------------------------------------------------ C4
\* C4: read_excel returns one key per sheet of the workbook, in storage order,
\* each holding that sheet's rows in row order and cells in column order.
C4_ReadExcelAllSheets ==
    (OnWorkbook /\ last.name = "read_excel")
    => /\ last.frame.status = "return"
       /\ Len(last.frame.result) = Len(last.seen.sheets)
       /\ \A i \in 1..Len(last.seen.sheets) :
            /\ last.frame.result[i].key = last.seen.sheets[i].title
            /\ SameGrid(last.frame.result[i].data, last.seen.sheets[i].rows)

C4_Witness ==
    /\ OnWorkbook /\ last.name = "read_excel" /\ last.seen = WbBA
    /\ Len(last.frame.result) = 2
    /\ last.frame.result[1].key = "B" /\ last.frame.result[2].key = "A"

\* ------------------------------------------------------------ C5
\* what the caller receives
Response(frame) == <<frame.status, frame.text, frame.excType, frame.excMsg>>

SameFile(x, y) ==
    /\ x.op = "call_tool" /\ y.op = "call_tool"
    /\ x.name = y.name
    /\ ~x.arguments.none /\ ~y.arguments.none
    /\ x.arguments.d["file_path"] = y.arguments.d["file_path"]
    /\ x.arguments.d["file_path"].t = "str"
    /\ x.seen = y.seen /\ x.seen.kind = "xlsx"

\* x leaves the selector out, y names the first sheet
DefaultAndFirstName(x, y) ==
    /\ SameFile(x, y) /\ x.name = "read_excel_by_sheet_name"
    /\ x.arguments.d["sheet_index"] = Missing /\ y.arguments.d["sheet_index"] = Missing
    /\ x.arguments.d["sheet_name"] = Missing
    /\ y.arguments.d["sheet_name"] = PyStr(x.seen.sheets[1].title)

\* x leaves the selector out, y gives index 0
DefaultAndIndexZero(x, y) ==
    /\ SameFile(x, y) /\ x.name = "read_excel_by_sheet_index"
    /\ x.arguments.d["sheet_name"] = Missing /\ y.arguments.d["sheet_name"] = Missing
    /\ x.arguments.d["sheet_index"] = Missing
    /\ y.arguments.d["sheet_index"] = PyInt(0)

DefaultPair(x, y) == DefaultAndFirstName(x, y) \/ DefaultAndIndexZero(x, y)

\* C5: on the same workbook, read_excel_by_sheet_name without sheet_name
\* answers exactly as with the first sheet's name, and
\* read_excel_by_sheet_index without sheet_index exactly as with index 0.
C5_DefaultIsFirst ==
    [][(DefaultPair(last, last') \/ DefaultPair(last', last))
         => Response(last'.frame) = Response(last.frame)]_vars

\* the default selection was served from a workbook whose first sheet is B
C5_Witness ==
    /\ OnWorkbook /\ last.name = "read_excel_by_sheet_name"
    /\ Arg("sheet_name") = Missing /\ last.seen = WbBA
    /\ last.frame.status = "return" /\ last.frame.result[1].key = "B"

\* ------------------------------------------------------------ C6
\* C6: for all three tools every returned cell is a string: "" for an absent
\* value, the string form for any other value, falsy ones included; no row and
\* no cell of the sheet is dropped.
C6_CellsAreStrings ==
    (OnWorkbook /\ last.frame.status = "return")
    => \A i \in 1..Len(last.frame.result) :
         /\ last.frame.result[i].key \in Titles(last.seen)
         /\ SameGrid(last.frame.result[i].data,
                     SheetOf(last.seen, last.frame.result[i].key).rows)

\* a sheet holding the number 0 and an empty string was returned by index
C6_Witness ==
    /\ OnWorkbook /\ last.name = "read_excel_by_sheet_index"
    /\ last.frame.status = "return"
    /\ SheetOf(last.seen, last.frame.result[1].key).rows = GridZero
    /\ last.frame.result[1].data = << <<PyStr("0"), PyStr("")>> >>

\* ------------------------------------------------------------ C7
\* C7: a failure while opening, parsing or extracting is reported as
\* ProcessingError carrying the underlying message; no other exception leaves
\* handle_call_tool and every failure is one of the seven kinds.
C7_UniformErrors ==
    IsCall =>
        /\ last.frame.status = "raise" =>
             last.frame.excType = "ValueError" /\ Kind(last.frame) \in Taxonomy
        /\ (FirstFailure = "none" /\ last.seen.kind = "corrupt") =>
             /\ Kind(last.frame) = "ProcessingError"
             /\ last.frame.excMsg = "Error reading Excel file: " \o MsgBadZip

\* ------------------------------------------------------------ C8
\* a file system holding nothing but the file the invocation named
OnlyNamedFile ==
    [p \in AbsolutePaths |->
        IF Arg("file_path").t = "str" /\ Abspath(Arg("file_path").s) = p
        THEN last.seen ELSE NoFile]

Isolated ==
    IsCall => Response(last.frame)
                = Response(CallTool(last.name, last.arguments, OnlyNamedFile))

Repeated ==
    (last.op = "call_tool" /\ last'.op = "call_tool"
        /\ last'.name = last.name /\ last'.arguments = last.arguments
        /\ last'.seen = last.seen)
    => Response(last'.frame) = Response(last.frame)

C10_FalsySheetName ==
    (OnWorkbook /\ last.name = "read_excel_by_sheet_name"
        /\ Arg("sheet_name") \in {PyStr(""), PyNone})
    => /\ last.frame.status = "return"
       /\ Len(last.frame.result) = 1
       /\ last.frame.result[1].key = last.seen.sheets[1].title
       /\ SameGrid(last.frame.result[1].data, last.seen.sheets[1].rows)

C10_Witness ==
    /\ OnWorkbook /\ last.name = "read_excel_by_sheet_name"
    /\ Arg("sheet_name") = PyStr("") /\ last.seen = WbBA
    /\ last.frame.status = "return" /\ last.frame.result[1].key = "B"
====
